---- MODULE Spec2Model ----
(***************************************************************************)
(* cargo-msrv: the "ordered by MSRV" dependency listing                    *)
(* (src/dependencies/formatter/ordered_by_msrv.rs) and the reporter events *)
(* (src/reporter/event/{fetch_index,auxiliary_output,set_output}.rs).      *)
(*                                                                         *)
(* Option<T> is modelled as a sequence of length 0 (None) or 1 (Some(x)),  *)
(* Vec<T> as a sequence, BTreeMap<K, V> as the sequence of its entries in  *)
(* ascending key order (the order in which a BTreeMap is iterated).        *)
(***************************************************************************)
EXTENDS Integers, Sequences, FiniteSets, TLC

(* Bounds of the model. *)
NumNodes == 3
MaxEdges == 2
MaxEvents == 3

VARIABLES
    graph,        \* DependencyGraph: [packages, edges, root]
    pc,           \* position of the formatter: "idle", "bfs", "fold"
    printer,      \* the Output type of the formatter being displayed
    bfs,          \* petgraph::visit::Bfs: [stack, discovered]
    version_map,  \* BTreeMap<Option<Version>, Vec<&Package>>
    foldIdx,      \* position of the `for (version, packages) in version_map` loop
    out,          \* the accumulator B
    calls,        \* history: the Values handed to f, with the map key of each
    visited,      \* history: the node indices returned by bfs.next, in order
    consulted,    \* history: per visited node, the fallbacks that were evaluated
    history,      \* history: one record per completed Display::fmt call
    channel,      \* reporter: events handed over and not yet received
    sink,         \* reporter: events recorded by the test handler
    published,    \* history: the records passed to report_event, in order
    connected,    \* reporter: the channel is still connected
    listener,     \* reporter: "running" or "finished"
    waitPc,       \* wait_for_events: "idle", "joining", "returned"
    returned      \* the vector wait_for_events returned

fmtVars == <<graph, pc, printer, bfs, version_map, foldIdx, out, calls, visited,
             consulted, history>>
repVars == <<channel, sink, published, connected, listener, waitPc, returned>>
vars == <<graph, pc, printer, bfs, version_map, foldIdx, out, calls, visited,
          consulted, history, channel, sink, published, connected, listener,
          waitPc, returned>>

-----------------------------------------------------------------------------
(* Option and semver::Version *)

None == <<>>
Some(x) == <<x>>
unwrap_or_default(o) == IF o = <<>> THEN 0 ELSE o[1]

Version_new(major, minor, patch) ==
    [major |-> major, minor |-> minor, patch |-> patch]

(* Ord for semver::Version without pre-release: major, minor, patch. *)
VersionLess(a, b) ==
    \/ a.major < b.major
    \/ a.major = b.major /\ a.minor < b.minor
    \/ a.major = b.major /\ a.minor = b.minor /\ a.patch < b.patch

(* A faulty variant: the absent key is the greatest. *)
KeyLessNoneLast(a, b) ==
    IF b = <<>> THEN a # <<>>
    ELSE IF a = <<>> THEN FALSE
    ELSE VersionLess(a[1], b[1])

(* A faulty variant: the order of the keys changes from one run to the next, as the
   iteration order of a map with a per-instance hash seed does. *)
KeyLessPerRun(a, b) ==
    IF Len(history) % 2 = 0
    THEN (IF a = <<>> THEN b # <<>>
          ELSE IF b = <<>> THEN FALSE
          ELSE VersionLess(a[1], b[1]))
    ELSE (IF b = <<>> THEN a # <<>>
          ELSE IF a = <<>> THEN FALSE
          ELSE VersionLess(b[1], a[1]))

(* The BTreeMap key order, Ord for Option<Version>: None is the least. *)
KeyLess(a, b) ==
    IF a = <<>> THEN b # <<>>
    ELSE IF b = <<>> THEN FALSE
    ELSE VersionLess(a[1], b[1])

-----------------------------------------------------------------------------
(* Strings *)

Digits == <<"0", "1", "2", "3", "4", "5", "6", "7", "8", "9">>

RECURSIVE NatToString(_)
NatToString(n) ==
    IF n < 10 THEN Digits[n + 1]
    ELSE NatToString(n \div 10) \o Digits[(n % 10) + 1]

VersionToString(v) ==
    NatToString(v.major) \o "." \o NatToString(v.minor) \o "." \o NatToString(v.patch)

format_version(version) ==
    IF version = <<>> THEN "unknown" ELSE VersionToString(version[1])

RECURSIVE JoinWith(_, _)
JoinWith(strs, sep) ==
    IF strs = <<>> THEN ""
    ELSE IF Len(strs) = 1 THEN strs[1]
    ELSE strs[1] \o sep \o JoinWith(Tail(strs), sep)

-----------------------------------------------------------------------------
(* Packages and the requirement resolution of one visited package *)

Comparator(major, minor, patch) ==
    [major |-> major, minor |-> minor, patch |-> patch]

get_package_metadata_msrv(package) == package.metadata_msrv

parse_manifest_workaround(package) == package.manifest_msrv

DeclaredVersion(req) ==
    LET comparator == req.comparators[1]
    IN  Version_new(comparator.major,
                    unwrap_or_default(comparator.minor),
                    unwrap_or_default(comparator.patch))

(* A faulty variant: the metadata fallback takes precedence over rust_version. *)
ResolveMsrvMetadataFirst(package) ==
    IF get_package_metadata_msrv(package) # <<>>
    THEN [msrv |-> get_package_metadata_msrv(package), consulted |-> {"metadata"}]
    ELSE IF package.rust_version # <<>>
    THEN [msrv |-> Some(DeclaredVersion(package.rust_version[1])),
          consulted |-> {"metadata"}]
    ELSE [msrv |-> parse_manifest_workaround(package),
          consulted |-> {"metadata", "manifest"}]

(* rust_version.map(..).or_else(metadata).or_else(manifest): or_else runs its
   closure only when the value so far is None. `consulted` names the closures
   that ran. *)
ResolveMsrv(package) ==
    IF package.rust_version # <<>>
    THEN [msrv |-> Some(DeclaredVersion(package.rust_version[1])), consulted |-> {}]
    ELSE IF get_package_metadata_msrv(package) # <<>>
    THEN [msrv |-> get_package_metadata_msrv(package), consulted |-> {"metadata"}]
    ELSE [msrv |-> parse_manifest_workaround(package),
          consulted |-> {"metadata", "manifest"}]

-----------------------------------------------------------------------------
(* petgraph: Graph::neighbors and Bfs *)

(* Outgoing neighbours of n, most recently added edge first. *)
RECURSIVE Neighbors(_, _)
Neighbors(edges, n) ==
    IF edges = <<>> THEN <<>>
    ELSE LET rest == Neighbors(Tail(edges), n)
         IN  IF Head(edges).source = n THEN Append(rest, Head(edges).target)
             ELSE rest

(* A faulty variant: the start node is queued without being marked discovered. *)
BfsNewUnmarked(start) == [stack |-> <<start>>, discovered |-> {}]

BfsNew(start) == [stack |-> <<start>>, discovered |-> {start}]

(* A faulty variant: every successor counts as newly discovered. *)
VisitAlways(discovered, n) == TRUE

(* VisitMap::visit: TRUE when n is visited for the first time. *)
Visit(discovered, n) == n \notin discovered

(* Bfs::next after the pop: each successor not yet discovered is marked and
   pushed to the back of the queue. *)
RECURSIVE BfsDiscover(_, _)
BfsDiscover(b, succs) ==
    IF succs = <<>> THEN b
    ELSE LET succ == Head(succs)
             nb == IF Visit(b.discovered, succ)
                   THEN [stack |-> Append(b.stack, succ),
                         discovered |-> b.discovered \cup {succ}]
                   ELSE b
         IN  BfsDiscover(nb, Tail(succs))

-----------------------------------------------------------------------------
(* version_map.entry(msrv).or_default().push(package) *)

(* A faulty variant: the package is put at the front of the bucket. *)
VecPushFront(v, x) == <<x>> \o v

VecPush(v, x) == Append(v, x)

HasKey(map, key) == \E i \in DOMAIN map : map[i].key = key

RECURSIVE InsertEntry(_, _)
InsertEntry(map, e) ==
    IF map = <<>> THEN <<e>>
    ELSE IF KeyLess(Head(map).key, e.key) THEN <<Head(map)>> \o InsertEntry(Tail(map), e)
    ELSE <<e>> \o map

(* A faulty variant: every package opens an entry of its own. *)
EntryPushAlwaysNew(map, key, nx) ==
    InsertEntry(map, [key |-> key, packages |-> VecPush(<<>>, nx)])

EntryPush(map, key, nx) ==
    IF HasKey(map, key)
    THEN [i \in DOMAIN map |->
            IF map[i].key = key
            THEN [key |-> key, packages |-> VecPush(map[i].packages, nx)]
            ELSE map[i]]
    ELSE InsertEntry(map, [key |-> key, packages |-> VecPush(<<>>, nx)])

-----------------------------------------------------------------------------
(* The two renderers' callbacks *)

RECURSIVE PackageNames(_, _)
PackageNames(packages, nodes) ==
    IF nodes = <<>> THEN <<>>
    ELSE <<packages[Head(nodes)].name>> \o PackageNames(packages, Tail(nodes))

(* Values { msrv, dependencies } built from one map entry. *)
MakeValues(entry) ==
    [msrv |-> format_version(entry.key),
     dependencies |-> PackageNames(graph.packages, entry.packages)]

HumanInit == [header |-> <<"MSRV", "Dependency">>, rows |-> <<>>]

(* A faulty variant: the names are joined with a bare comma. *)
HumanFoldComma(acc, next) ==
    [acc EXCEPT !.rows = Append(@, <<next.msrv, JoinWith(next.dependencies, ",")>>)]

HumanFold(acc, next) ==
    [acc EXCEPT !.rows = Append(@, <<next.msrv, JoinWith(next.dependencies, ", ")>>)]

JsonInit == <<>>

JsonFold(acc, next) ==
    Append(acc, [msrv |-> next.msrv, dependencies |-> next.dependencies])

ORDERED_BY_MSRV == "ordered-by-msrv"

JsonDocument(objects) ==
    [reason |-> "list", variant |-> ORDERED_BY_MSRV, success |-> TRUE, list |-> objects]

-----------------------------------------------------------------------------
(* ByMSRVFormatter: Display::fmt and dependencies_by_msrv *)

(* fmt is entered: the accumulator is initialised, the Bfs is created on the
   root and the map is empty. The graph is displayed by two formatters, one
   per Output type, each once and in either order. *)
Enter(p, init) ==
    /\ pc = "idle"
    /\ \A i \in DOMAIN history : history[i].printer # p
    /\ printer' = p
    /\ out' = init
    /\ bfs' = BfsNew(graph.root)
    /\ version_map' = <<>>
    /\ foldIdx' = 1
    /\ calls' = <<>>
    /\ visited' = <<>>
    /\ consulted' = [n \in {} |-> {}]
    /\ pc' = "bfs"
    /\ UNCHANGED <<graph, history>>
    /\ UNCHANGED repVars

FmtHuman == Enter("human", HumanInit)

FmtJson == Enter("json", JsonInit)

(* One iteration of `while let Some(nx) = bfs.next(&graph)`. *)
BfsLoop ==
    /\ pc = "bfs"
    /\ bfs.stack # <<>>
    /\ LET nx == Head(bfs.stack)
           package == graph.packages[nx]
           r == ResolveMsrv(package)
       IN  /\ bfs' = BfsDiscover([bfs EXCEPT !.stack = Tail(@)],
                                 Neighbors(graph.edges, nx))
           /\ version_map' = EntryPush(version_map, r.msrv, nx)
           /\ visited' = Append(visited, nx)
           /\ consulted' = (nx :> r.consulted) @@ consulted
    /\ UNCHANGED <<graph, pc, printer, foldIdx, out, calls, history>>
    /\ UNCHANGED repVars

(* bfs.next returns None: the loop ends. *)
BfsEnd ==
    /\ pc = "bfs"
    /\ bfs.stack = <<>>
    /\ pc' = "fold"
    /\ UNCHANGED <<graph, printer, bfs, version_map, foldIdx, out, calls, visited,
                   consulted, history>>
    /\ UNCHANGED repVars

(* One iteration of `for (version, packages) in version_map`. *)
FoldStep ==
    /\ pc = "fold"
    /\ foldIdx <= Len(version_map)
    /\ LET entry == version_map[foldIdx]
           values == MakeValues(entry)
       IN  /\ out' = IF printer = "human" THEN HumanFold(out, values)
                     ELSE JsonFold(out, values)
           /\ calls' = Append(calls, [key |-> entry.key, values |-> values])
    /\ foldIdx' = foldIdx + 1
    /\ UNCHANGED <<graph, pc, printer, bfs, version_map, visited, consulted, history>>
    /\ UNCHANGED repVars

(* dependencies_by_msrv returns `out`; fmt writes the table or the document. *)
Return ==
    /\ pc = "fold"
    /\ foldIdx > Len(version_map)
    /\ history' = Append(history,
                         [printer |-> printer,
                          calls |-> calls,
                          out |-> out,
                          written |-> IF printer = "human" THEN out
                                      ELSE JsonDocument(out)])
    /\ pc' = "idle"
    /\ UNCHANGED <<graph, printer, bfs, version_map, foldIdx, out, calls, visited,
                   consulted>>
    /\ UNCHANGED repVars

-----------------------------------------------------------------------------
(* The dependency graphs and packages the model is run on *)

V(major, minor, patch) == Version_new(major, minor, patch)

Req(comparators) == [comparators |-> comparators]

Package(name, rust_version, metadata_msrv, manifest_msrv) ==
    [name |-> name, rust_version |-> rust_version,
     metadata_msrv |-> metadata_msrv, manifest_msrv |-> manifest_msrv]

(* Four packages: one resolved by rust_version to 1.40.0, one by the metadata
   fallback to 1.9.0, one unresolved, one resolved by the manifest scan to
   1.40.0; two of them carry the same name. *)
PackageSamples ==
    << Package("a", Some(Req(<<Comparator(1, Some(40), None)>>)), Some(V(1, 9, 0)), None),
       Package("b", None, Some(V(1, 9, 0)), Some(V(1, 40, 0))),
       Package("a", None, None, None),
       Package("c", None, None, Some(V(1, 40, 0))) >>

(* Every combination of a declared rust_version (one, two or three parts, one
   or two comparators), a metadata value and a manifest value. *)
AllPackages ==
    { Package("a", rv, md, mf) :
        rv \in { None,
                 Some(Req(<<Comparator(1, None, None)>>)),
                 Some(Req(<<Comparator(1, Some(40), None)>>)),
                 Some(Req(<<Comparator(1, Some(40), Some(2)), Comparator(2, None, None)>>)) },
        md \in { None, Some(V(1, 9, 0)), Some(V(1, 56, 0)) },
        mf \in { None, Some(V(1, 9, 0)), Some(V(1, 30, 1)) } }

Nodes == 1..NumNodes

Edges == [source : Nodes, target : Nodes]

(* The nodes reachable from `root` along the edges `es`. *)
RECURSIVE ReachFrom(_, _)
ReachFrom(es, S) ==
    LET T == S \cup { es[i].target : i \in { j \in DOMAIN es : es[j].source \in S } }
    IN  IF T = S THEN S ELSE ReachFrom(es, T)

(* The edges in the order they were added. Graph::neighbors depends only on
   the relative order of the edges that leave the same node, so the edges are
   listed by ascending source. Edges that leave a node the root does not
   reach are present in the graphs of fewer than MaxEdges edges; the graphs of
   MaxEdges edges have every edge leave a node the root reaches. *)
EdgeSeqs ==
    { es \in UNION { [1..k -> Edges] : k \in 0..MaxEdges } :
        /\ \A i \in DOMAIN es : \A j \in DOMAIN es :
              i < j => es[i].source <= es[j].source
        /\ Len(es) = MaxEdges =>
              \A i \in DOMAIN es : es[i].source \in ReachFrom(es, {1}) }

InitReporterIdle ==
    /\ channel = <<>>
    /\ sink = <<>>
    /\ published = <<>>
    /\ connected = TRUE
    /\ listener = "running"
    /\ waitPc = "idle"
    /\ returned = <<>>

InitFormatter ==
    /\ pc = "idle"
    /\ printer = "human"
    /\ bfs = [stack |-> <<>>, discovered |-> {}]
    /\ version_map = <<>>
    /\ foldIdx = 1
    /\ out = <<>>
    /\ calls = <<>>
    /\ visited = <<>>
    /\ consulted = <<>>
    /\ history = <<>>

(* The nodes other than the root are interchangeable (a graph and its
   relabelling give the same listing), so their packages are taken in the
   order of PackageSamples. *)
PackageChoices ==
    { c \in [Nodes -> DOMAIN PackageSamples] :
        \A i \in Nodes : \A j \in Nodes : (1 < i /\ i < j) => c[i] <= c[j] }

Init ==
    /\ \E c \in PackageChoices : \E edges \in EdgeSeqs :
          graph = [packages |-> [n \in Nodes |-> PackageSamples[c[n]]],
                   edges |-> edges, root |-> 1]
    /\ InitFormatter
    /\ InitReporterIdle

(* A graph of the root alone, with any package and any number of self-edges. *)
InitResolve ==
    /\ \E p \in AllPackages : \E k \in 0..MaxEdges :
          graph = [packages |-> <<p>>,
                   edges |-> [i \in 1..k |-> [source |-> 1, target |-> 1]],
                   root |-> 1]
    /\ InitFormatter
    /\ InitReporterIdle

Next ==
    \/ FmtHuman
    \/ FmtJson
    \/ BfsLoop
    \/ BfsEnd
    \/ FoldStep
    \/ Return

Spec == Init /\ [][Next]_vars

SpecResolve == InitResolve /\ [][Next]_vars

-----------------------------------------------------------------------------
(* Properties of the formatter *)

(* dependencies_by_msrv has returned and its last run is still in the state. *)
Finished == pc = "idle" /\ history # <<>>

GraphNodes == DOMAIN graph.packages

(* The version a declared requirement stands for: the parts of its first
   comparator, a missing minor or patch read as zero. *)
Declared(package) ==
    LET c == package.rust_version[1].comparators[1]
    IN  [major |-> c.major,
         minor |-> IF c.minor = <<>> THEN 0 ELSE c.minor[1],
         patch |-> IF c.patch = <<>> THEN 0 ELSE c.patch[1]]

(* The key of the map entry that holds node n. *)
KeyOf(n) ==
    LET i == CHOOSE i \in DOMAIN version_map :
                 \E k \in DOMAIN version_map[i].packages : version_map[i].packages[k] = n
    IN  version_map[i].key

(* The nodes reachable from the root along the edges. *)
Reachable == ReachFrom(graph.edges, {graph.root})

(* The members of all map entries, one after the other. *)
RECURSIVE Members(_)
Members(map) ==
    IF map = <<>> THEN <<>> ELSE Head(map).packages \o Members(Tail(map))

ValuesOf(cs) == [k \in DOMAIN cs |-> cs[k].values]

(* C3: strict first-success precedence of the resolution of every visited
   node: a declared rust_version gives the version built from its first
   comparator and neither fallback is consulted; otherwise a present metadata
   value is used and the manifest scan is not consulted; otherwise the result
   is the manifest scan's, and when that is absent too the node is filed under
   the absent key and the run goes on. *)
ResolutionPrecedence ==
    \A n \in DOMAIN consulted :
        LET p == graph.packages[n]
        IN  /\ p.rust_version # <<>> =>
                 KeyOf(n) = <<Declared(p)>> /\ consulted[n] = {}
            /\ (p.rust_version = <<>> /\ p.metadata_msrv # <<>>) =>
                 KeyOf(n) = p.metadata_msrv /\ consulted[n] = {"metadata"}
            /\ (p.rust_version = <<>> /\ p.metadata_msrv = <<>>) =>
                 KeyOf(n) = p.manifest_msrv /\ consulted[n] = {"metadata", "manifest"}
            /\ (p.rust_version = <<>> /\ p.metadata_msrv = <<>> /\ p.manifest_msrv = <<>>) =>
                 KeyOf(n) = <<>> /\ pc \in {"bfs", "fold", "idle"}

(* A visited node that declares a two-part rust_version and also carries a
   metadata value and a manifest value, both different from it. *)
ResolutionPrecedenceWitness ==
    /\ Finished
    /\ \E n \in DOMAIN consulted :
          LET p == graph.packages[n]
          IN  /\ p.rust_version # <<>>
              /\ p.rust_version[1].comparators[1].patch = <<>>
              /\ p.metadata_msrv # <<>> /\ p.metadata_msrv # <<Declared(p)>>
              /\ p.manifest_msrv # <<>> /\ p.manifest_msrv # <<Declared(p)>>

(* C4: two runs of dependencies_by_msrv over the same graph hand the same
   Values (requirement string and member names) to the callback, bucket by
   bucket and in the same order. *)
Determinism ==
    \A i \in DOMAIN history : \A j \in DOMAIN history :
        ValuesOf(history[i].calls) = ValuesOf(history[j].calls)

(* Two completed runs with three buckets each. *)
DeterminismWitness ==
    /\ Len(history) = 2
    /\ Len(history[1].calls) = 3
    /\ Len(history[2].calls) = 3

(* C5: a human run and a JSON run over the same graph give as many rows as
   records, row i and record i carry the same requirement string, and record
   i's member list joined with ", " is row i's second column. *)
RenderersAgree ==
    \A i \in DOMAIN history : \A j \in DOMAIN history :
        (history[i].printer = "human" /\ history[j].printer = "json") =>
            LET rows == history[i].out.rows
                records == history[j].out
            IN  /\ Len(rows) = Len(records)
                /\ \A k \in DOMAIN rows :
                      /\ rows[k][1] = records[k].msrv
                      /\ rows[k][2] = JoinWith(records[k].dependencies, ", ")

(* A human run and a JSON run with two buckets, one of them of two members. *)
RenderersAgreeWitness ==
    /\ Len(history) >= 2
    /\ history[1].printer = "human"
    /\ history[2].printer = "json"
    /\ Len(history[2].out) = 2
    /\ \E k \in DOMAIN history[2].out : Len(history[2].out[k].dependencies) = 2

(* C6: the callback is never called while the traversal is running; when
   dependencies_by_msrv has returned it was called exactly once for each
   distinct resolved requirement of the visited nodes, the concrete versions in
   strictly ascending order, and the accumulator returned holds one element
   per call. *)
FoldAfterTraversal ==
    /\ calls # <<>> => (pc # "bfs" /\ bfs.stack = <<>>)
    /\ \A k \in DOMAIN calls : \A l \in DOMAIN calls :
          (k < l /\ calls[k].key # <<>> /\ calls[l].key # <<>>) =>
              VersionLess(calls[k].key[1], calls[l].key[1])
    /\ Finished =>
          LET resolved == { KeyOf(visited[i]) : i \in DOMAIN visited }
              last == history[Len(history)]
          IN  /\ { calls[k].key : k \in DOMAIN calls } = resolved
              /\ Len(calls) = Cardinality(resolved)
              /\ last.calls = calls
              /\ Len(calls) = IF last.printer = "human" THEN Len(last.out.rows)
                              ELSE Len(last.out)

(* Three nodes were visited, two of them with the same requirement, and the
   callback was called twice. *)
FoldAfterTraversalWitness ==
    /\ Finished
    /\ Len(visited) = 3
    /\ Len(calls) = 2
    /\ calls[1].key # <<>>

(* C7: there is at most one "unknown" bucket, it is the first one handed to
   the callback, and it exists exactly when a visited node has no resolvable
   requirement. *)
UnknownBucketFirst ==
    /\ \A k \in DOMAIN calls :
          /\ (calls[k].key = <<>>) <=> (calls[k].values.msrv = "unknown")
          /\ calls[k].key = <<>> => k = 1
    /\ Finished =>
          ((\E k \in DOMAIN calls : calls[k].values.msrv = "unknown")
             <=> (\E i \in DOMAIN visited :
                    LET p == graph.packages[visited[i]]
                    IN  /\ p.rust_version = <<>>
                        /\ p.metadata_msrv = <<>>
                        /\ p.manifest_msrv = <<>>))

(* A run with an "unknown" bucket followed by two concrete-version buckets. *)
UnknownBucketFirstWitness ==
    /\ Finished
    /\ Len(calls) = 3
    /\ calls[1].values.msrv = "unknown"

(* C8: when the traversal is over the map entries partition the nodes
   reachable from the root: each reachable node is a member exactly once, no
   other node is a member, no entry is empty, and each bucket lists the name
   of every member (a name shared by two members twice); a root without
   outgoing edges gives one bucket holding the root alone, and nodes that all
   resolve to one requirement give one bucket. *)
BucketsPartitionReachable ==
    /\ pc \in {"fold", "idle"} /\ visited # <<>> =>
          /\ Len(Members(version_map)) = Cardinality(Reachable)
          /\ { Members(version_map)[i] : i \in 1..Len(Members(version_map)) } = Reachable
          /\ \A i \in DOMAIN version_map : version_map[i].packages # <<>>
          /\ Neighbors(graph.edges, graph.root) = <<>> =>
                /\ Len(version_map) = 1
                /\ version_map[1].packages = <<graph.root>>
          /\ Cardinality({ ResolveMsrv(graph.packages[n]).msrv : n \in Reachable }) = 1 =>
                Len(version_map) = 1
    /\ \A k \in DOMAIN calls :
          /\ Len(calls[k].values.dependencies) = Len(version_map[k].packages)
          /\ \A m \in DOMAIN version_map[k].packages :
                calls[k].values.dependencies[m]
                    = graph.packages[version_map[k].packages[m]].name

(* A finished run on a graph with a cycle through the root and an unreachable
   node, in which one bucket lists the same name twice. *)
BucketsPartitionReachableWitness ==
    /\ Finished
    /\ Reachable # GraphNodes
    /\ \E i \in DOMAIN graph.edges : graph.edges[i].target = graph.root
    /\ \E k \in DOMAIN calls : calls[k].values.dependencies = <<"a", "a">>

(* C9: the traversal loop runs at most once per node of the graph, cycles or
   not: no node is returned by bfs.next twice, and the nodes returned together
   with those still queued never outnumber the nodes of the graph. *)
BfsVisitsOnce ==
    /\ \A i \in DOMAIN visited : \A j \in DOMAIN visited :
          visited[i] = visited[j] => i = j
    /\ Len(visited) + Len(bfs.stack) <= Cardinality(GraphNodes)
    /\ (pc = "bfs" /\ bfs.stack = <<>>) => ENABLED BfsEnd

(* The traversal has ended on a graph with a two-node cycle through the root. *)
BfsVisitsOnceWitness ==
    /\ pc = "fold"
    /\ \E i \in DOMAIN graph.edges : \E j \in DOMAIN graph.edges :
          /\ graph.edges[i].source = graph.root
          /\ graph.edges[i].target # graph.root
          /\ graph.edges[j].source = graph.edges[i].target
          /\ graph.edges[j].target = graph.root

(* C10: the members of every bucket are in the order in which bfs.next
   returned them, and the root is the first member of its bucket. *)
BucketOrderIsVisitOrder ==
    /\ \A i \in DOMAIN version_map :
          LET ps == version_map[i].packages
          IN  \A k \in DOMAIN ps : \A l \in DOMAIN ps :
                k < l => \E a \in DOMAIN visited : \E b \in DOMAIN visited :
                             a < b /\ visited[a] = ps[k] /\ visited[b] = ps[l]
    /\ visited # <<>> =>
          /\ visited[1] = graph.root
          /\ \E i \in DOMAIN version_map : version_map[i].packages[1] = graph.root
    /\ \A k \in DOMAIN calls :
          calls[k].values.dependencies =
              [m \in DOMAIN version_map[k].packages |->
                  graph.packages[version_map[k].packages[m]].name]

(* A finished run with one bucket of three members, the second of which (the
   root's neighbour added last) has a name of its own. *)
BucketOrderIsVisitOrderWitness ==
    /\ Finished
    /\ \E k \in DOMAIN calls : calls[k].values.dependencies = <<"a", "c", "a">>

-----------------------------------------------------------------------------
(* Reporter events: the records, their conversion into Event, and the test
   reporter that records what was reported *)

FetchIndex_new(source) == [type |-> "FetchIndex", from_source |-> source]

AuxiliaryOutput_new(destination, item) ==
    [type |-> "AuxiliaryOutput", destination |-> destination, item |-> item]

SetOutputMessage_new(version, manifest_path) ==
    [type |-> "SetOutputMessage", version |-> version, manifest_path |-> manifest_path]

Item_msrv(kind) == [item |-> "Msrv", kind |-> kind]

Item_toolchain_file(kind) == [item |-> "ToolchainFile", kind |-> kind]

Destination_File(path) == [destination |-> "File", path |-> path]

Event_new(message) == [message |-> message]

(* A faulty variant: the record is wrapped in the wrong Message variant. *)
FetchIndexIntoEventWrongVariant(it) ==
    Event_new([variant |-> "AuxiliaryOutput", payload |-> it])

FetchIndexIntoEvent(it) == Event_new([variant |-> "FetchIndex", payload |-> it])

AuxiliaryOutputIntoEvent(it) ==
    Event_new([variant |-> "AuxiliaryOutput", payload |-> it])

SetOutputMessageIntoEvent(it) == Event_new([variant |-> "SetOutput", payload |-> it])

(* report_event(impl Into<Event>): the conversion of the record's own type. *)
IntoEvent(it) ==
    IF it.type = "FetchIndex" THEN FetchIndexIntoEvent(it)
    ELSE IF it.type = "AuxiliaryOutput" THEN AuxiliaryOutputIntoEvent(it)
    ELSE SetOutputMessageIntoEvent(it)

(* The records the tests report, and a SetOutputMessage. *)
Reportable ==
    { FetchIndex_new("RustChangelog"), FetchIndex_new("RustDist") }
    \cup { AuxiliaryOutput_new(Destination_File("hello"), item) :
             item \in { Item_msrv("RustVersion"), Item_msrv("MetadataFallback"),
                        Item_toolchain_file("Toml") } }
    \cup { SetOutputMessage_new("1.56.0", "Cargo.toml") }

(* reporter.report_event(event): the event is handed to the channel. *)
ReportEvent ==
    /\ waitPc = "idle"
    /\ connected
    /\ Len(published) < MaxEvents
    /\ \E it \in Reportable :
          /\ channel' = Append(channel, IntoEvent(it))
          /\ published' = Append(published, it)
    /\ UNCHANGED <<sink, connected, listener, waitPc, returned>>
    /\ UNCHANGED fmtVars

(* The listener receives the oldest event and the handler records it. *)
ListenerReceive ==
    /\ listener = "running"
    /\ channel # <<>>
    /\ sink' = Append(sink, Head(channel))
    /\ channel' = Tail(channel)
    /\ UNCHANGED <<published, connected, listener, waitPc, returned>>
    /\ UNCHANGED fmtVars

(* A faulty variant: the listener ends only after it has received an event. *)
ListenerFinishAfterEvent ==
    /\ listener = "running"
    /\ channel = <<>>
    /\ ~connected
    /\ sink # <<>>
    /\ listener' = "finished"
    /\ UNCHANGED <<channel, sink, published, connected, waitPc, returned>>
    /\ UNCHANGED fmtVars

(* The channel is empty and disconnected: the listener ends. *)
ListenerFinish ==
    /\ listener = "running"
    /\ channel = <<>>
    /\ ~connected
    /\ listener' = "finished"
    /\ UNCHANGED <<channel, sink, published, connected, waitPc, returned>>
    /\ UNCHANGED fmtVars

(* wait_for_events, first half: the reporter disconnects the channel. *)
WaitDisconnect ==
    /\ waitPc = "idle"
    /\ connected' = FALSE
    /\ waitPc' = "joining"
    /\ UNCHANGED <<channel, sink, published, listener, returned>>
    /\ UNCHANGED fmtVars

(* wait_for_events, second half: the listener has ended and the recorded
   events are returned. *)
WaitReturn ==
    /\ waitPc = "joining"
    /\ listener = "finished"
    /\ returned' = sink
    /\ waitPc' = "returned"
    /\ UNCHANGED <<channel, sink, published, connected, listener>>
    /\ UNCHANGED fmtVars

InitReporter ==
    /\ graph = [packages |-> <<PackageSamples[1]>>, edges |-> <<>>, root |-> 1]
    /\ InitFormatter
    /\ InitReporterIdle

NextReporter ==
    \/ ReportEvent
    \/ ListenerReceive
    \/ ListenerFinish
    \/ WaitDisconnect
    \/ WaitReturn

SpecReporter == InitReporter /\ [][NextReporter]_vars

(* The listener runs on its own thread and wait_for_events blocks on it: each
   of their steps is taken once it stays possible. *)
FairSpecReporter ==
    /\ SpecReporter
    /\ WF_vars(ListenerReceive)
    /\ WF_vars(ListenerFinish)
    /\ WF_vars(WaitReturn)

(* The Message variant that belongs to each record type. *)
VariantOf(type) ==
    CASE type = "FetchIndex" -> "FetchIndex"
      [] type = "AuxiliaryOutput" -> "AuxiliaryOutput"
      [] type = "SetOutputMessage" -> "SetOutput"

(* C1: once wait_for_events has returned, the vector it returned holds, for
   the records reported in order, exactly one Event each, in that order, each
   wrapping the Message variant of its record type with the record unchanged;
   and nothing is left in the channel. *)
RecordedIsPublished ==
    waitPc = "returned" =>
        /\ Len(returned) = Len(published)
        /\ \A i \in DOMAIN published :
              returned[i] = [message |-> [variant |-> VariantOf(published[i].type),
                                          payload |-> published[i]]]
        /\ channel = <<>>

(* wait_for_events returned after three records of the three types. *)
RecordedIsPublishedWitness ==
    /\ waitPc = "returned"
    /\ Len(published) = 3
    /\ published[1].type = "FetchIndex"
    /\ published[2].type = "AuxiliaryOutput"
    /\ published[3].type = "SetOutputMessage"

(* C2: a call of wait_for_events always returns, and when nothing was ever
   reported it returns the empty vector. *)
WaitForEventsReturns ==
    /\ (waitPc = "joining") ~> (waitPc = "returned")
    /\ [](waitPc = "returned" /\ published = <<>> => returned = <<>>)

(* wait_for_events returned and nothing had been reported. *)
WaitForEventsReturnsWitness ==
    /\ waitPc = "returned"
    /\ published = <<>>
    /\ returned = <<>>

====
